---- MODULE Spec2Model ----
(***************************************************************************)
(* A model of the four scripts of chonker8:                                *)
(*   download_trocr_onnx.py  the model downloader        (Spec)            *)
(*   demo_chonker8_hot.py    the demo                    (SpecRun)         *)
(*   test_table_pdf.py       the table test              (SpecRun)         *)
(*   kitty_test_simple.py    the Kitty graphics emitter  (SpecKitty)       *)
(* Each script is a straight-line program; pc holds its position.          *)
(***************************************************************************)
EXTENDS Integers, Sequences, FiniteSets, TLC

VARIABLES
    pc,          \* position of the running script
    \* ---- download_trocr_onnx.py
    fs,          \* models/: path -> content, or NoFile
    cur,         \* destination of the download_file call in progress
    total_size,  \* download_file: total_size
    downloaded,  \* download_file: downloaded
    chunks,      \* chunks written by the iter_content loop so far
    status_ok,   \* whether the response has a 2xx status
    exitCode,    \* value returned by main (-1: none yet)
    run,         \* number of the run of the script
    startFs,     \* history: fs when the run began
    order,       \* history: the operations issued in this run, in order
    failed,      \* history: the download an exception was raised in ("none")
    lastModel,   \* history: what models/trocr.onnx held at the start of the
                 \* latest run it existed in (else the first backup file)
    \* ---- demo_chonker8_hot.py / test_table_pdf.py
    script,      \* which of the two scripts runs
    now,         \* the clock, in seconds
    child,       \* the child process spawned last
    result,      \* the output captured from it
    printed,     \* what the script printed since its last header line
    pdfIdx,      \* test_table_pdf.py: index of pdf in test_pdfs
    uncaught,    \* the exception that ended the script ("none")
    timedOut,    \* history: the deadline came with the child still running
    \* ---- kitty_test_simple.py
    png, img_data, encoded, stdout, fault

dlVars == <<fs, cur, total_size, downloaded, chunks, status_ok, exitCode, run,
            startFs, order, failed, lastModel>>
runVars == <<script, now, child, result, printed, pdfIdx, uncaught, timedOut>>
kittyVars == <<png, img_data, encoded, stdout, fault>>
vars == <<pc, dlVars, runVars, kittyVars>>

(***************************************************************************)
(* download_trocr_onnx.py                                                  *)
(***************************************************************************)
MaxRuns == 2
MaxChunks == 1
PreSize == 5

block_size == 8192

Model == "models/trocr.onnx"
Backup == "models/trocr_pytorch.pth"
Encoder == "models/trocr_encoder.onnx"
Paths == {Model, Backup, Encoder}

\* A file's content is named by where it came from: the run that wrote it
\* (0: it was there before the first run) and the path it was written to.
NoFile == [run |-> -1, origin |-> "absent", size |-> 0]
PreExisting(p) == [run |-> 0, origin |-> p, size |-> PreSize]
Fresh(r, p) == [run |-> r, origin |-> p, size |-> 0]
exists(p) == fs[p] # NoFile

\* The sizes a chunk yielded by iter_content may have (b'' is a keep-alive).
ChunkLens == {0, 1, block_size}
\* int(response.headers.get('content-length', 0)): 0 stands for no header.
LengthHeaders == {0, block_size}

dlIdle ==
    /\ fs = [p \in Paths |-> NoFile] /\ cur = "none" /\ total_size = 0
    /\ downloaded = 0 /\ chunks = 0 /\ status_ok = TRUE /\ exitCode = -1
    /\ run = 0 /\ startFs = [p \in Paths |-> NoFile] /\ order = <<>>
    /\ failed = "none" /\ lastModel = NoFile
runIdle ==
    /\ script = "none" /\ now = 0 /\ result = <<>>
    /\ child = [spawned |-> -1, exitAt |-> 0, onTerm |-> 0, lines |-> <<>>,
                reaped |-> FALSE]
    /\ printed = <<>> /\ pdfIdx = 0 /\ uncaught = "none" /\ timedOut = FALSE
kittyIdle ==
    /\ png = <<>> /\ img_data = <<>> /\ encoded = <<>> /\ stdout = <<>>
    /\ fault = "none"

Init ==
    /\ pc = "main"
    /\ fs \in {[p \in Paths |-> IF p \in S THEN PreExisting(p) ELSE NoFile] :
                 S \in SUBSET Paths}
    /\ cur = "none" /\ total_size = 0 /\ downloaded = 0 /\ chunks = 0
    /\ status_ok = TRUE /\ exitCode = -1 /\ run = 1
    /\ startFs = fs /\ order = <<>> /\ failed = "none"
    /\ lastModel = IF exists(Model) THEN fs[Model] ELSE fs[Backup]
    /\ runIdle /\ kittyIdle

\* A rename that refuses to replace an existing destination.
renameKeep(src, dst) ==
    IF fs[dst] # NoFile THEN fs ELSE [fs EXCEPT ![dst] = fs[src], ![src] = NoFile]

\* os.rename(existing_model, backup_path) on POSIX: the destination is
\* replaced silently.
rename(src, dst) == [fs EXCEPT ![dst] = fs[src], ![src] = NoFile]

\* main, lines 35-43: mkdir, then the backup of an existing models/trocr.onnx.
\* The rename is outside the try block: when it raises, the script ends
\* with a traceback before any download.
BackupExisting ==
    /\ pc = "main"
    /\ \/ /\ IF exists(Model)
             THEN /\ fs' = rename(Model, Backup)
                  /\ order' = Append(order, <<"rename", Model>>)
             ELSE UNCHANGED <<fs, order>>
          /\ cur' = Model
          /\ pc' = "get"
       \/ /\ exists(Model)
          /\ pc' = "crashed"
          /\ UNCHANGED <<fs, order, cur>>
    /\ UNCHANGED <<total_size, downloaded, chunks, status_ok, exitCode, run,
                   startFs, failed, lastModel, runVars, kittyVars>>

\* An error of the first download that is swallowed: main goes on.
RaiseGoOn ==
    /\ pc' = IF cur = Model THEN "returned" ELSE "except"
    /\ failed' = cur

\* An exception raised inside the try block of main while download_file
\* runs for cur: control goes to the except clause.
Raise ==
    /\ pc' = "except"
    /\ failed' = cur

\* download_file, line 12: requests.get(url, stream=True).
Get ==
    /\ pc = "get"
    /\ order' = Append(order, <<"get", cur>>)
    /\ \/ /\ \E ok \in BOOLEAN : status_ok' = ok
          /\ pc' = "status"
          /\ UNCHANGED failed
       \/ /\ Raise
          /\ UNCHANGED status_ok
    /\ total_size' = 0 /\ downloaded' = 0 /\ chunks' = 0
    /\ UNCHANGED <<fs, cur, exitCode, run, startFs, lastModel, runVars,
                   kittyVars>>

\* download_file, lines 13-17: response.raise_for_status(), then the
\* content-length header is read.
RaiseForStatus ==
    /\ pc = "status"
    /\ IF status_ok
       THEN /\ \E len \in LengthHeaders : total_size' = len
            /\ pc' = "open"
            /\ UNCHANGED failed
       ELSE /\ Raise
            /\ UNCHANGED total_size
    /\ UNCHANGED <<fs, cur, downloaded, chunks, status_ok, exitCode, run,
                   startFs, order, lastModel, runVars, kittyVars>>

\* download_file, line 19: open(destination, 'wb') creates or truncates.
Open ==
    /\ pc = "open"
    /\ \/ /\ fs' = [fs EXCEPT ![cur] = Fresh(run, cur)]
          /\ order' = Append(order, <<"open", cur>>)
          /\ pc' = "iter"
          /\ UNCHANGED failed
       \/ /\ Raise
          /\ UNCHANGED <<fs, order>>
    /\ UNCHANGED <<cur, total_size, downloaded, chunks, status_ok, exitCode,
                   run, startFs, lastModel, runVars, kittyVars>>

\* download_file, lines 20-26: one iteration of the iter_content loop.  An
\* empty chunk is skipped; any other is written and counted.
WriteChunk ==
    /\ pc = "iter"
    /\ \/ \E n \in ChunkLens :
            /\ IF n > 0
               THEN /\ chunks < MaxChunks
                    /\ chunks' = chunks + 1
                    /\ fs' = [fs EXCEPT ![cur].size = @ + n]
                    /\ downloaded' = downloaded + n
               ELSE UNCHANGED <<fs, downloaded, chunks>>
            /\ UNCHANGED <<pc, failed>>
       \/ /\ Raise       \* the read from the socket or f.write raises
          /\ UNCHANGED <<fs, downloaded, chunks>>
    /\ UNCHANGED <<cur, total_size, status_ok, exitCode, run, startFs, order,
                   lastModel, runVars, kittyVars>>

\* download_file, lines 20, 28-29: the iterator is exhausted, the file is
\* closed and download_file returns.  Nothing compares downloaded with
\* total_size.
StreamEnd ==
    /\ pc = "iter"
    /\ order' = Append(order, <<"return", cur>>)
    /\ pc' = "returned"
    /\ UNCHANGED <<fs, cur, total_size, downloaded, chunks, status_ok,
                   exitCode, run, startFs, failed, lastModel, runVars,
                   kittyVars>>

\* main, lines 67-76 and 87-88: after the first download the encoder is
\* downloaded; after the second main returns 0.
AfterDownload ==
    /\ pc = "returned"
    /\ IF cur = Model
       THEN /\ cur' = Encoder
            /\ pc' = "get"
            /\ UNCHANGED exitCode
       ELSE /\ pc' = "exit"
            /\ exitCode' = 0
            /\ UNCHANGED cur
    /\ UNCHANGED <<fs, total_size, downloaded, chunks, status_ok, run,
                   startFs, order, failed, lastModel, runVars, kittyVars>>

\* An except clause that reports success.
ExceptSwallow ==
    /\ pc = "except"
    /\ order' = Append(order, <<"failed", cur>>)
    /\ exitCode' = 0
    /\ pc' = "exit"
    /\ UNCHANGED <<fs, cur, total_size, downloaded, chunks, status_ok, run,
                   startFs, failed, lastModel, runVars, kittyVars>>

\* An except clause that puts the backup back in place of the failed file.
ExceptRestore ==
    /\ pc = "except"
    /\ order' = Append(order, <<"failed", cur>>)
    /\ exitCode' = 1
    /\ pc' = "exit"
    /\ fs' = IF cur = Model /\ startFs[Model] # NoFile
             THEN [fs EXCEPT ![Model] = fs[Backup], ![Backup] = NoFile]
             ELSE fs
    /\ UNCHANGED <<cur, total_size, downloaded, chunks, status_ok, run,
                   startFs, failed, lastModel, runVars, kittyVars>>

\* main, lines 78-85: the except clause prints the failure and returns 1.
Except ==
    /\ pc = "except"
    /\ order' = Append(order, <<"failed", cur>>)
    /\ exitCode' = 1
    /\ pc' = "exit"
    /\ UNCHANGED <<fs, cur, total_size, downloaded, chunks, status_ok, run,
                   startFs, failed, lastModel, runVars, kittyVars>>

\* The script is run again (lines 90-91), on the files the last run left.
RunAgain ==
    /\ pc = "exit"
    /\ run < MaxRuns
    /\ run' = run + 1
    /\ pc' = "main"
    /\ startFs' = fs
    /\ lastModel' = IF exists(Model) THEN fs[Model] ELSE lastModel
    /\ order' = <<>> /\ failed' = "none" /\ exitCode' = -1
    /\ cur' = "none" /\ total_size' = 0 /\ downloaded' = 0 /\ chunks' = 0
    /\ status_ok' = TRUE
    /\ UNCHANGED <<fs, runVars, kittyVars>>

Next ==
    \/ BackupExisting \/ Get \/ RaiseForStatus \/ Open \/ WriteChunk
    \/ StreamEnd \/ AfterDownload \/ Except \/ RunAgain

Spec == Init /\ [][Next]_vars

(***************************************************************************)
(* kitty_test_simple.py                                                    *)
(* Bytes and characters are numbers 0..255; standard output is the         *)
(* sequence of the bytes written to it.                                    *)
(***************************************************************************)
MaxImg == 5

ByteVals == {0, 165, 255}
\* A 10-byte file: the PNG signature and two more bytes.
Dummy10 == <<137, 80, 78, 71, 13, 10, 26, 10, 0, 1>>
Images == UNION {[1..n -> ByteVals] : n \in 0..MaxImg} \cup {Dummy10}

NoPng == [exists |-> FALSE, readable |-> FALSE, bytes |-> <<>>]
PngFile(b, r) == [exists |-> TRUE, readable |-> r, bytes |-> b]

\* The base64 alphabet: A-Z, a-z, 0-9, '+', '/'.
B64Char(i) ==
    IF i < 26 THEN 65 + i
    ELSE IF i < 52 THEN 97 + (i - 26)
    ELSE IF i < 62 THEN 48 + (i - 52)
    ELSE IF i = 62 THEN 43 ELSE 47

\* A base64 encoder that leaves the padding out.
RECURSIVE b64encodeNoPad(_)
b64encodeNoPad(s) ==
    IF Len(s) = 0 THEN <<>>
    ELSE IF Len(s) >= 3
    THEN LET n == s[1] * 65536 + s[2] * 256 + s[3]
         IN  <<B64Char(n \div 262144), B64Char((n \div 4096) % 64),
               B64Char((n \div 64) % 64), B64Char(n % 64)>>
             \o b64encodeNoPad(SubSeq(s, 4, Len(s)))
    ELSE IF Len(s) = 2
    THEN LET n == s[1] * 65536 + s[2] * 256
         IN  <<B64Char(n \div 262144), B64Char((n \div 4096) % 64),
               B64Char((n \div 64) % 64)>>
    ELSE LET n == s[1] * 65536
         IN  <<B64Char(n \div 262144), B64Char((n \div 4096) % 64)>>

\* base64.b64encode(img_data).decode('ascii'), line 15: three bytes give
\* four characters; a last group of one or two bytes is padded with '='.
RECURSIVE b64encode(_)
b64encode(s) ==
    IF Len(s) = 0 THEN <<>>
    ELSE IF Len(s) >= 3
    THEN LET n == s[1] * 65536 + s[2] * 256 + s[3]
         IN  <<B64Char(n \div 262144), B64Char((n \div 4096) % 64),
               B64Char((n \div 64) % 64), B64Char(n % 64)>>
             \o b64encode(SubSeq(s, 4, Len(s)))
    ELSE IF Len(s) = 2
    THEN LET n == s[1] * 65536 + s[2] * 256
         IN  <<B64Char(n \div 262144), B64Char((n \div 4096) % 64),
               B64Char((n \div 64) % 64), 61>>
    ELSE LET n == s[1] * 65536
         IN  <<B64Char(n \div 262144), B64Char((n \div 4096) % 64), 61, 61>>

\* '\x1b_G', 'a=T,f=100;' and '\x1b\\' of line 18.
EscPrefix == <<27, 95, 71>>
KittyHeader == <<97, 61, 84, 44, 102, 61, 49, 48, 48, 59>>
EscTerminator == <<27, 92>>
\* f'\x1b_Ga=T,f=100;{encoded}\x1b\\', line 18.
Frame(enc) == EscPrefix \o KittyHeader \o enc \o EscTerminator

\* The text of the two print calls, lines 21-22.
PrintedText ==
    <<10, 10, 80, 68, 70, 32, 115, 104, 111, 117, 108, 100, 32, 98,
      101, 32, 118, 105, 115, 105, 98, 108, 101, 32, 97, 98, 111,
      118, 101, 32, 105, 110, 32, 75, 105, 116, 116, 121, 32, 116,
      101, 114, 109, 105, 110, 97, 108, 10>>
    \o
    <<84, 104, 101, 32, 98, 105, 114, 116, 104, 32, 99, 101, 114,
      116, 105, 102, 105, 99, 97, 116, 101, 32, 104, 97, 115, 32, 98,
      101, 101, 110, 32, 114, 101, 110, 100, 101, 114, 101, 100, 32,
      118, 105, 97, 32, 86, 101, 108, 108, 111, 32, 40, 71, 80, 85,
      45, 97, 99, 99, 101, 108, 101, 114, 97, 116, 101, 100, 41, 10>>

InitKitty ==
    /\ pc = "k_render"
    /\ png \in {NoPng} \cup {PngFile(b, r) : b \in Images, r \in BOOLEAN}
    /\ img_data = <<>> /\ encoded = <<>> /\ stdout = <<>>
    /\ fault = "none"
    /\ dlIdle /\ runIdle

\* An uncaught exception: the script ends with a traceback.
Fatal(why) ==
    /\ pc' = "k_crashed"
    /\ fault' = why

\* Line 8: subprocess.run(["./target/release/test_vello"],
\* capture_output=True).  The binary may be missing (an uncaught
\* FileNotFoundError), may write vello_render_test.png, or may exit without
\* writing it; its exit status is not looked at.
RunRenderer ==
    /\ pc = "k_render"
    /\ \/ /\ Fatal("launch")
          /\ UNCHANGED png
       \/ /\ \E b \in {<<>>, Dummy10} : png' = PngFile(b, TRUE)
          /\ pc' = "k_open"
          /\ UNCHANGED fault
       \/ /\ pc' = "k_open"
          /\ UNCHANGED <<png, fault>>
    /\ UNCHANGED <<img_data, encoded, stdout, dlVars, runVars>>

\* An open that goes on with no data when the file cannot be opened.
OpenImageLenient ==
    /\ pc = "k_open"
    /\ pc' = "k_read"
    /\ UNCHANGED <<fault, png, img_data, encoded, stdout, dlVars, runVars>>

\* Line 11: open("vello_render_test.png", "rb").
OpenImage ==
    /\ pc = "k_open"
    /\ IF png.exists /\ png.readable
       THEN pc' = "k_read" /\ UNCHANGED fault
       ELSE Fatal("open")
    /\ UNCHANGED <<png, img_data, encoded, stdout, dlVars, runVars>>

\* Line 12: img_data = f.read(); the read may fail with an I/O error.
ReadImage ==
    /\ pc = "k_read"
    /\ \/ /\ img_data' = png.bytes
          /\ pc' = "k_encode"
          /\ UNCHANGED fault
       \/ /\ Fatal("read")
          /\ UNCHANGED img_data
    /\ UNCHANGED <<png, encoded, stdout, dlVars, runVars>>

\* Line 15.
Encode ==
    /\ pc = "k_encode"
    /\ encoded' = b64encode(img_data)
    /\ pc' = "k_write"
    /\ UNCHANGED <<fault, png, img_data, stdout, dlVars, runVars>>

\* Lines 18-19: one write of the whole framed sequence, then the flush.
Emit ==
    /\ pc = "k_write"
    /\ stdout' = stdout \o Frame(encoded)
    /\ pc' = "k_print"
    /\ UNCHANGED <<fault, png, img_data, encoded, dlVars, runVars>>

\* Lines 21-22.
PrintNotes ==
    /\ pc = "k_print"
    /\ stdout' = stdout \o PrintedText
    /\ pc' = "k_done"
    /\ UNCHANGED <<fault, png, img_data, encoded, dlVars, runVars>>

NextKitty ==
    \/ RunRenderer \/ OpenImage \/ ReadImage \/ Encode \/ Emit \/ PrintNotes

SpecKitty == InitKitty /\ [][NextKitty]_vars

(***************************************************************************)
(* demo_chonker8_hot.py and test_table_pdf.py                              *)
(* A text is a sequence of tokens, "\n" being the newline; a pattern       *)
(* occurs in a text when its tokens occur in it contiguously.              *)
(***************************************************************************)
MaxLines == 2
Horizon == 30

SleepSecs == 2
ReapTimeout == 1
RunTimeout == 5

Never == Horizon

test_pdfs ==
    <<"/Users/jack/Desktop/BERF-CERT.pdf", "/Users/jack/Desktop/17.pdf",
      "/Users/jack/Desktop/Testing_the_waters_for_floating_class_7.5M___Philadelphia_Daily_News_PA___February_17_2025__pX10.pdf">>

\* The literals the scripts look for.
P_Rendered == <<"Successfully rendered page!">>
P_Decoded == <<"[VELLO] Successfully decoded image">>
P_LayoutAnalysis == <<"Layout", "Analysis">>
P_LayoutLM == <<"Layout", "LM">>
P_has_tables == <<"has_tables">>
P_has_tables_eq == <<"has_tables", "=">>
P_has_tables_true == <<"has_tables", "=", "true">>

\* The lines the external binary may write to its standard error.
StderrLines ==
    {<<"has_tables", "=", "true">>, <<"has_tables", "=", "false">>,
     <<"Layout", "Analysis">>, <<"Layout", "LM">>, <<"layout", "analysis">>,
     <<"[VELLO] Successfully decoded image">>,
     <<"[vello] successfully decoded image">>}
Outputs == UNION {[1..n -> StderrLines] : n \in 0..MaxLines}

\* `pat in text`.
Contains(text, pat) ==
    \E i \in 1..(Len(text) - Len(pat) + 1) :
        SubSeq(text, i, i + Len(pat) - 1) = pat

\* The text of a sequence of lines, each ended by a newline.
RECURSIVE Join(_)
Join(ls) == IF ls = <<>> THEN <<>> ELSE Head(ls) \o <<"\n">> \o Join(Tail(ls))

\* text.split('\n').
RECURSIVE split(_)
split(text) ==
    IF \A i \in DOMAIN text : text[i] # "\n" THEN <<text>>
    ELSE LET k == CHOOSE i \in DOMAIN text :
                      text[i] = "\n" /\ \A j \in 1..(i-1) : text[j] # "\n"
         IN  <<SubSeq(text, 1, k - 1)>> \o split(SubSeq(text, k + 1, Len(text)))

NoChild ==
    [spawned |-> -1, exitAt |-> 0, onTerm |-> 0, lines |-> <<>>,
     reaped |-> FALSE]
NoResult == [stdout |-> <<>>, stderr |-> <<>>]
Running == child.spawned >= 0 /\ ~child.reaped /\ child.exitAt > now

\* How long the child runs when left alone, and how long it takes to exit
\* once it is sent SIGTERM (Never: it ignores the signal).
Lifetimes == {0, SleepSecs - 1, SleepSecs + 1, RunTimeout + 1, Never}
TermDelays == {0, ReapTimeout + 1, Never}

Msg(t) == [kind |-> "msg", line |-> <<t>>]
Echo(l) == [kind |-> "echo", line |-> l]

InitRun ==
    /\ script \in {"demo", "table"}
    /\ pc = IF script = "demo" THEN "d_render" ELSE "t_print"
    /\ now = 0 /\ child = NoChild /\ result = NoResult /\ printed = <<>>
    /\ pdfIdx = 1 /\ uncaught = "none" /\ timedOut = FALSE
    /\ dlIdle /\ kittyIdle

\* An exception nothing catches: the script ends with a traceback.
Crash(e) ==
    /\ pc' = "crashed"
    /\ uncaught' = e

\* The child process of Popen / subprocess.run, started now.
Spawned(life, term, ls) ==
    [spawned |-> now,
     exitAt |-> IF life = Never THEN Never ELSE now + life,
     onTerm |-> term, lines |-> ls, reaped |-> FALSE]

\* What has been read from the pipes of a child: everything when it ran to
\* its end, some prefix of its lines when it was stopped early.
Captured(c, k) ==
    [stdout |-> <<>>, stderr |-> Join(SubSeq(c.lines, 1, k))]

\* demo, lines 14-20: run test_vello (no timeout) and look at its stdout.
DemoRender ==
    /\ pc = "d_render"
    /\ \/ /\ Crash("FileNotFoundError")
          /\ UNCHANGED <<now, result, printed>>
       \/ /\ \E out \in {<<>>, P_Rendered \o <<"\n">>}, d \in {0, 1} :
               /\ result' = [stdout |-> out, stderr |-> <<>>]
               /\ now' = now + d
               /\ printed' = IF Contains(out, P_Rendered)
                             THEN <<Msg("Vello renderer working!")>>
                             ELSE <<>>
          /\ pc' = "d_popen"
          /\ UNCHANGED uncaught
    /\ UNCHANGED <<script, child, pdfIdx, timedOut, dlVars, kittyVars>>

\* demo, lines 24-27: Popen of chonker8-hot.
DemoPopen ==
    /\ pc = "d_popen"
    /\ \/ /\ Crash("FileNotFoundError")
          /\ UNCHANGED child
       \/ /\ \E life \in Lifetimes, term \in TermDelays, ls \in Outputs :
               child' = Spawned(life, term, ls)
          /\ pc' = "d_sleep"
          /\ UNCHANGED uncaught
    /\ result' = NoResult
    /\ UNCHANGED <<script, now, printed, pdfIdx, timedOut, dlVars, kittyVars>>

\* demo, line 30: time.sleep(2) sleeps for at least two seconds.
DemoSleep ==
    /\ pc = "d_sleep"
    /\ \E late \in {0, 1} : now' = now + SleepSecs + late
    /\ pc' = "d_terminate"
    /\ UNCHANGED <<script, child, result, printed, pdfIdx, uncaught, timedOut,
                   dlVars, kittyVars>>

\* demo, line 31: proc.terminate() sends SIGTERM to a child that has not
\* exited; the child exits after its delay, or not at all.
DemoTerminate ==
    /\ pc = "d_terminate"
    /\ IF Running
       THEN /\ timedOut' = TRUE
            /\ child' = [child EXCEPT !.exitAt =
                            IF child.onTerm = Never THEN @
                            ELSE IF now + child.onTerm < @
                                 THEN now + child.onTerm ELSE @]
       ELSE UNCHANGED <<timedOut, child>>
    /\ pc' = "d_communicate"
    /\ UNCHANGED <<script, now, result, printed, pdfIdx, uncaught, dlVars,
                   kittyVars>>

\* demo, line 32: proc.communicate(timeout=1) reads the pipes and waits for
\* the child; after one second it raises TimeoutExpired and leaves the
\* child as it is.
DemoCommunicate ==
    /\ pc = "d_communicate"
    /\ IF child.exitAt <= now + ReapTimeout
       THEN /\ now' = IF child.exitAt > now THEN child.exitAt ELSE now
            /\ child' = [child EXCEPT !.reaped = TRUE]
            /\ \E k \in 0..Len(child.lines) :
                  /\ ~timedOut => k = Len(child.lines)
                  /\ result' = Captured(child, k)
            /\ pc' = "d_inspect"
            /\ UNCHANGED uncaught
       ELSE /\ now' = now + ReapTimeout
            /\ Crash("TimeoutExpired")
            /\ UNCHANGED <<child, result>>
    /\ UNCHANGED <<script, printed, pdfIdx, timedOut, dlVars, kittyVars>>

\* demo, lines 34-49: the marker check on stderr and the closing prints.
DemoInspect ==
    /\ pc = "d_inspect"
    /\ printed' = IF Contains(result.stderr, P_Decoded)
                  THEN printed \o <<Msg("chonker8-hot successfully loaded and decoded PDF!")>>
                  ELSE printed
    /\ pc' = "d_done"
    /\ UNCHANGED <<script, now, child, result, pdfIdx, uncaught, timedOut,
                   dlVars, kittyVars>>

\* table test, lines 14-15: the next pdf of the loop and its header line.
TablePrint ==
    /\ pc = "t_print"
    /\ printed' = <<Msg(test_pdfs[pdfIdx])>>
    /\ pc' = "t_run"
    /\ UNCHANGED <<script, now, child, result, pdfIdx, uncaught, timedOut,
                   dlVars, kittyVars>>

\* table test, lines 16-22: subprocess.run(..., timeout=5).  When the
\* child is still running after five seconds, run kills it, waits for it
\* and raises TimeoutExpired, which nothing in the script catches.
TableRun ==
    /\ pc = "t_run"
    /\ \/ /\ Crash("FileNotFoundError")
          /\ UNCHANGED <<child, now, result, timedOut>>
       \/ \E life \in Lifetimes, term \in TermDelays, ls \in Outputs :
             IF life <= RunTimeout
             THEN /\ child' = [Spawned(life, term, ls) EXCEPT !.reaped = TRUE]
                  /\ now' = now + life
                  /\ result' = Captured(Spawned(life, term, ls), Len(ls))
                  /\ pc' = "t_inspect"
                  /\ UNCHANGED <<uncaught, timedOut>>
             ELSE /\ child' = [Spawned(life, term, ls) EXCEPT
                                  !.exitAt = now + RunTimeout,
                                  !.reaped = TRUE]
                  /\ now' = now + RunTimeout
                  /\ timedOut' = TRUE
                  /\ Crash("TimeoutExpired")
                  /\ UNCHANGED result
    /\ UNCHANGED <<script, printed, pdfIdx, dlVars, kittyVars>>

IsTableLine(l) ==
    Contains(l, P_has_tables) \/ Contains(l, P_LayoutAnalysis)
        \/ Contains(l, P_LayoutLM)
IsFlagLine(l) == Contains(l, P_has_tables_eq)
EchoAll(ls) == [i \in DOMAIN ls |-> Echo(ls[i])]

\* table test, lines 25-35: the marker checks on result.stderr.
TableInspect ==
    /\ pc = "t_inspect"
    /\ LET ls == split(result.stderr)
       IN  printed' =
              IF Contains(result.stderr, P_LayoutAnalysis)
                    \/ Contains(result.stderr, P_has_tables_true)
              THEN printed \o <<Msg("Tables detected! Method: LayoutAnalysis")>>
                       \o EchoAll(SelectSeq(ls, IsTableLine))
              ELSE LET hits == SelectSeq(ls, IsFlagLine)
                   IN  IF hits = <<>> THEN printed
                       ELSE printed \o <<Echo(hits[1])>>
    /\ pc' = "t_next"
    /\ UNCHANGED <<script, now, child, result, pdfIdx, uncaught, timedOut,
                   dlVars, kittyVars>>

\* table test, line 36 and the loop of line 14.
TableNext ==
    /\ pc = "t_next"
    /\ IF pdfIdx < Len(test_pdfs)
       THEN pdfIdx' = pdfIdx + 1 /\ pc' = "t_print"
       ELSE pc' = "t_done" /\ UNCHANGED pdfIdx
    /\ UNCHANGED <<script, now, child, result, printed, uncaught, timedOut,
                   dlVars, kittyVars>>

NextRun ==
    \/ DemoRender \/ DemoPopen \/ DemoSleep \/ DemoTerminate
    \/ DemoCommunicate \/ DemoInspect
    \/ TablePrint \/ TableRun \/ TableInspect \/ TableNext

SpecRun == InitRun /\ [][NextRun]_vars

(***************************************************************************)
(* Properties of download_trocr_onnx.py                                    *)
(***************************************************************************)
Has(e) == \E i \in DOMAIN order : order[i] = e
Started(d) == Has(<<"get", d>>)
Opened(d) == Has(<<"open", d>>)
Count(e) == Cardinality({i \in DOMAIN order : order[i] = e})
\* What a download that failed leaves at its destination: the bytes written
\* before the failure when the file was opened, else what was there.
LeftBy(d) ==
    IF Opened(d) THEN [run |-> run, origin |-> d, size |-> downloaded]
    ELSE IF d = Model THEN NoFile ELSE startFs[d]

\* C1 as stated: for each of the two downloads, when the destination existed
\* before the download started, once it has started some other file holds
\* the destination's pre-download content.
C1_EveryDownloadBackedUp ==
    \A d \in {Model, Encoder} :
        (Started(d) /\ startFs[d] # NoFile)
            => \E p \in Paths \ {d} : fs[p] = startFs[d]

\* C1 amended: only models/trocr.onnx is backed up.  When it existed at the
\* start of a run, once its download has started models/trocr_pytorch.pth
\* holds what it held at the start of that run, whatever backup was there
\* before; when it did not exist the backup file is left as it was.
C1_ModelBackedUp ==
    Started(Model) =>
        fs[Backup] = IF startFs[Model] # NoFile THEN startFs[Model]
                     ELSE startFs[Backup]

C1_Witness ==
    /\ run = 2 /\ Started(Model) /\ pc = "iter" /\ downloaded > 0
    /\ startFs[Model] # NoFile /\ startFs[Backup] # NoFile
    /\ startFs[Backup] # startFs[Model]
    /\ fs[Backup] = startFs[Model]

\* C2: when the response carried a length header of S and download_file
\* returns normally, the destination file's size is S.
C2_SizeEqualsHeader ==
    (pc = "returned" /\ total_size > 0) => fs[cur].size = total_size

\* C5: an error raised in either download is not retried, leaves the bytes
\* already written at the destination, is printed, and makes main return 1;
\* main returns 0 only when both downloads returned without an error.
C5_FailureReturnsOne ==
    /\ \A d \in {Model, Encoder} : Count(<<"get", d>>) <= 1
    /\ failed # "none" =>
          /\ pc \in {"except", "exit"}
          /\ fs[failed] = LeftBy(failed)
          /\ ~Has(<<"return", failed>>)
    /\ pc = "exit" =>
          /\ exitCode = IF failed = "none" THEN 0 ELSE 1
          /\ failed # "none" => order[Len(order)] = <<"failed", failed>>
          /\ exitCode = 0 =>
                /\ Has(<<"return", Model>>) /\ Has(<<"return", Encoder>>)
                /\ ~Has(<<"failed", Model>>) /\ ~Has(<<"failed", Encoder>>)

C5_Witness ==
    /\ pc = "exit" /\ exitCode = 1 /\ failed = Encoder
    /\ Opened(Encoder) /\ downloaded = block_size
    /\ fs[Encoder].size = block_size /\ startFs[Encoder] # NoFile

\* C9: the operations of a run are issued in script order: the backup
\* rename comes before the first request, the encoder is requested only
\* after the download of models/trocr.onnx has returned, and when the first
\* download fails the encoder download is not started and
\* models/trocr_encoder.onnx is left untouched.
C9_ScriptOrder ==
    /\ \A i \in DOMAIN order :
          /\ order[i] = <<"rename", Model>> => i = 1
          /\ order[i] = <<"get", Model>> =>
                /\ startFs[Model] # NoFile => \E j \in 1..(i-1) :
                                                 order[j] = <<"rename", Model>>
                /\ \A j \in 1..(i-1) : order[j][2] = Model
          /\ order[i][2] = Encoder =>
                \E j \in 1..(i-1) : order[j] = <<"return", Model>>
          /\ order[i] = <<"return", Model>> =>
                \A j \in 1..(i-1) : order[j][2] = Model
    /\ failed = Model =>
          /\ \A i \in DOMAIN order : order[i][2] # Encoder
          /\ fs[Encoder] = startFs[Encoder]

C9_Witness ==
    /\ pc = "exit" /\ failed = Model /\ Opened(Model)
    /\ startFs[Encoder] # NoFile /\ startFs[Model] # NoFile
    /\ order[1] = <<"rename", Model>>

\* C10: the backup rename is never undone.  After a run in which
\* models/trocr.onnx existed at the start and its download failed, main
\* returns 1, the pre-run content is at models/trocr_pytorch.pth and nowhere
\* else, and models/trocr.onnx is absent or holds only the bytes the failed
\* download wrote; and after any number of runs the backup path holds what
\* models/trocr.onnx held at the start of the latest run it existed in (a
\* run whose rename itself raised has touched no file).
C10_BackupNeverUndone ==
    /\ (pc = "exit" /\ failed = Model /\ startFs[Model] # NoFile) =>
          /\ exitCode = 1
          /\ fs[Backup] = startFs[Model]
          /\ \A p \in Paths \ {Backup} : fs[p] # startFs[Model]
          /\ fs[Model] = IF Opened(Model)
                         THEN [run |-> run, origin |-> Model,
                               size |-> downloaded]
                         ELSE NoFile
    /\ pc \notin {"main", "crashed"} => fs[Backup] = lastModel
    /\ pc = "crashed" => fs = startFs

C10_Witness ==
    /\ run = 2 /\ pc = "exit" /\ failed = Model /\ exitCode = 1
    /\ startFs[Model].run = 1 /\ startFs[Backup].run = 0
    /\ fs[Backup].run = 1 /\ fs[Model].size = 1

(***************************************************************************)
(* Properties of kitty_test_simple.py                                      *)
(***************************************************************************)
B64Val(c) ==
    IF c >= 65 /\ c <= 90 THEN c - 65
    ELSE IF c >= 97 /\ c <= 122 THEN c - 97 + 26
    ELSE IF c >= 48 /\ c <= 57 THEN c - 48 + 52
    ELSE IF c = 43 THEN 62
    ELSE IF c = 47 THEN 63 ELSE -1

\* Padded base64: groups of four characters of the alphabet, '=' only as
\* the last or the last two characters.
WellFormedB64(p) ==
    /\ Len(p) % 4 = 0
    /\ \A i \in DOMAIN p :
          \/ B64Val(p[i]) >= 0
          \/ p[i] = 61 /\ i >= Len(p) - 1 /\ p[Len(p)] = 61

RECURSIVE B64Decode(_)
B64Decode(p) ==
    IF Len(p) < 4 THEN <<>>
    ELSE LET v(i) == IF p[i] = 61 THEN 0 ELSE B64Val(p[i])
             n == v(1) * 262144 + v(2) * 4096 + v(3) * 64 + v(4)
             b == <<n \div 65536, (n \div 256) % 256, n % 256>>
         IN  IF p[3] = 61 THEN SubSeq(b, 1, 1)
             ELSE IF p[4] = 61 THEN SubSeq(b, 1, 2)
             ELSE b \o B64Decode(SubSeq(p, 5, Len(p)))

\* C6: for an image file of n bytes, what has been written to standard
\* output once the emitter has written is one sequence: ESC '_' 'G', then
\* 'a=T,f=100;', then ceil(n/3)*4 characters that are the padded base64 of
\* the file's bytes, then ESC '\'; there is no second escape sequence.
C6_FramedOnce ==
    pc \in {"k_print", "k_done"} =>
        LET n == Len(png.bytes)
            m == ((n + 2) \div 3) * 4
            payload == SubSeq(stdout, 14, 13 + m)
        IN  /\ Len(stdout) >= 15 + m
            /\ pc = "k_print" => Len(stdout) = 15 + m
            /\ stdout[1] = 27 /\ stdout[2] = 95 /\ stdout[3] = 71
            /\ SubSeq(stdout, 4, 13) =
                  <<97, 61, 84, 44, 102, 61, 49, 48, 48, 59>>
            /\ WellFormedB64(payload)
            /\ B64Decode(payload) = png.bytes
            /\ stdout[14 + m] = 27 /\ stdout[15 + m] = 92
            /\ Cardinality({i \in DOMAIN stdout : stdout[i] = 27}) = 2

C6_Witness ==
    /\ pc = "k_print" /\ png.bytes = Dummy10
    /\ Len(stdout) = 3 + 10 + 16 + 2
    /\ stdout[28] = 61 /\ stdout[29] = 61

\* C8: when vello_render_test.png is missing or cannot be read the script
\* ends with an uncaught error and nothing has been written to standard
\* output; whatever is written was preceded by a complete read of the file.
C8_NoPartialEmission ==
    /\ stdout # <<>> =>
          /\ pc \in {"k_print", "k_done"} /\ fault = "none"
          /\ png.exists /\ png.readable /\ img_data = png.bytes
    /\ pc \in {"k_read", "k_encode", "k_write", "k_print", "k_done"} =>
          png.exists /\ png.readable
    /\ (pc = "k_crashed") = (fault # "none")
    /\ fault # "none" => stdout = <<>>

C8_Witness ==
    /\ pc = "k_crashed" /\ fault = "open" /\ stdout = <<>>
    /\ png.exists /\ ~png.readable /\ png.bytes = Dummy10

(***************************************************************************)
(* Properties of demo_chonker8_hot.py and test_table_pdf.py                *)
(***************************************************************************)
\* The deadline of the script: sleep 2 s then terminate, or timeout=5.
Deadline == IF script = "demo" THEN SleepSecs ELSE RunTimeout
\* The runner step is over: communicate or subprocess.run has returned or
\* raised.
RunnerReturned == pc # "d_communicate"

\* C3: when the deadline came before the child exited, then once the runner
\* step has returned or raised the child is no longer running and at least
\* the deadline has elapsed since it was spawned, also for a child that
\* does not exit when asked to terminate.
C3_StoppedAfterDeadline ==
    (timedOut /\ RunnerReturned) =>
        /\ ~Running
        /\ now - child.spawned >= Deadline

\* C4: a child still running at the deadline is not fatal to the script:
\* once the runner step is over nothing uncaught has been raised and the
\* result holds the output captured up to then.
C4_TimeoutNotFatal ==
    (timedOut /\ RunnerReturned) =>
        /\ uncaught = "none"
        /\ \E k \in 0..Len(child.lines) : result = Captured(child, k)

\* C7: every marker rule is evaluated on every scan whatever the other
\* rules found: after a scan of the table test every line of the captured
\* text that contains the pattern of a rule has been echoed, and after the
\* scan of the demo the success message is printed exactly when the marker
\* occurs in the captured text.
C7_RulesIndependent ==
    /\ (script = "table" /\ pc = "t_next") =>
          LET ls == split(result.stderr)
          IN  \A pat \in {P_has_tables, P_has_tables_eq, P_LayoutAnalysis,
                          P_LayoutLM} :
                 \A i \in DOMAIN ls :
                    Contains(ls[i], pat) =>
                       \E j \in DOMAIN printed : printed[j] = Echo(ls[i])
    /\ (script = "demo" /\ pc = "d_done") =>
          (Contains(result.stderr, P_Decoded)
             <=> \E j \in DOMAIN printed :
                    printed[j] =
                       Msg("chonker8-hot successfully loaded and decoded PDF!"))

====
